---- MODULE Spec2Model ----
(***************************************************************************)
(* PodGenie: the script-generation and response-recovery pipeline of       *)
(* services/geminiService.ts (generatePodcastScript).                      *)
(*                                                                         *)
(* A JavaScript string is a sequence of one-character strings.  A          *)
(* JavaScript value is a record [t, v]: t is the type tag and v the        *)
(* payload, always a sequence (characters of a string or of a number       *)
(* lexeme, elements of an array, members of an object).                    *)
(***************************************************************************)
EXTENDS Bags, Integers, Sequences, FiniteSets, TLC

(***************************************************************************)
(* Bounds of the model.                                                    *)
(***************************************************************************)
MaxObjs == 2
MaxTextLen == 2
MaxProseLen == 5
MaxPad == 52

(***************************************************************************)
(* Characters and string helpers.                                          *)
(***************************************************************************)
\* The characters /\s/ and String.prototype.trim treat as white space.
WhiteSpace == {" ", "\n", "\t", "\r", "\f"}

\* The characters the JSON grammar treats as white space.
JsonSpace == {" ", "\n", "\t", "\r"}

\* The line terminators the regular-expression dot does not match.
LineTerminator == {"\n", "\r"}

Digit == {"0", "1", "2", "3", "4", "5", "6", "7", "8", "9"}

HexDigit == Digit \cup {"a", "b", "c", "d", "e", "f", "A", "B", "C", "D", "E", "F"}

\* s.slice(i - 1): the characters of s from position i (1-based) on.
From(s, i) == SubSeq(s, i, Len(s))

\* s.startsWith(p, i - 1)
StartsAt(s, i, p) ==
  /\ i + Len(p) - 1 <= Len(s)
  /\ \A k \in 1..Len(p) : s[i + k - 1] = p[k]

\* The least element of a non-empty set of positions.
Min(S) == CHOOSE j \in S : \A k \in S : j <= k

\* The first position >= i of s whose character is not in C (Len(s) + 1 if
\* there is none, i itself if i is beyond the end).
SkipWhile(s, i, C) ==
  IF i > Len(s) \/ s[i] \notin C THEN i
  ELSE Min({j \in (i + 1)..Len(s) : s[j] \notin C} \cup {Len(s) + 1})

\* The first position >= i of s whose character is in C (Len(s) + 1 if
\* there is none, i itself if i is beyond the end).
SkipTo(s, i, C) ==
  IF i > Len(s) \/ s[i] \in C THEN i
  ELSE Min({j \in (i + 1)..Len(s) : s[j] \in C} \cup {Len(s) + 1})

\* The first position >= i of s that holds no white space.
SkipSpace(s, i) == SkipWhile(s, i, WhiteSpace)

\* The first position >= i of s that holds no JSON white space.
SkipJsonSpace(s, i) == SkipWhile(s, i, JsonSpace)

\* c repeated n times.
Pad(c, n) == [k \in 1..n |-> c]

\* The concatenation of a sequence of strings.
RECURSIVE Concat(_)
Concat(ss) == IF ss = << >> THEN << >> ELSE Head(ss) \o Concat(Tail(ss))

\* String.prototype.trim
TrimStart(s) == From(s, SkipSpace(s, 1))

TrimEnd(s) ==
  IF Len(s) = 0 \/ s[Len(s)] \notin WhiteSpace THEN s
  ELSE LET keep == {j \in 1..Len(s) : s[j] \notin WhiteSpace}
       IN IF keep = {} THEN << >>
          ELSE SubSeq(s, 1, CHOOSE j \in keep : \A k \in keep : k <= j)

Trim(s) == TrimEnd(TrimStart(s))

\* s.replace(/pat/g, rep) for a literal pattern: leftmost matches, not overlapping.
RECURSIVE ReplaceAllFrom(_, _, _, _)
ReplaceAllFrom(s, i, pat, rep) ==
  LET j == SkipTo(s, i, {pat[1]})
  IN IF j > Len(s) THEN From(s, i)
     ELSE IF StartsAt(s, j, pat)
          THEN SubSeq(s, i, j - 1) \o rep \o ReplaceAllFrom(s, j + Len(pat), pat, rep)
          ELSE SubSeq(s, i, j) \o ReplaceAllFrom(s, j + 1, pat, rep)

ReplaceAll(s, pat, rep) == ReplaceAllFrom(s, 1, pat, rep)

(***************************************************************************)
(* String literals of the source.                                          *)
(***************************************************************************)
Quote == "\""
Backslash == "\\"
\* The grave accent, which a TLA+ string cannot hold, is the character "<tick>".
Tick == "<tick>"
Fence == <<Tick, Tick, Tick>>
FenceJson == Fence \o <<"j", "s", "o", "n">>
KeySpeaker == <<"s", "p", "e", "a", "k", "e", "r">>
KeyText == <<"t", "e", "x", "t">>
LitHost == <<"H", "o", "s", "t">>
LitExpert == <<"E", "x", "p", "e", "r", "t">>
LitNarrator == <<"N", "a", "r", "r", "a", "t", "o", "r">>
LitSpeaker1 == <<"S", "p", "e", "a", "k", "e", "r", " ", "1">>

(***************************************************************************)
(* JavaScript values.                                                      *)
(***************************************************************************)
Str(s) == [t |-> "str", v |-> s]
Num(s) == [t |-> "num", v |-> s]
Bool(s) == [t |-> "bool", v |-> s]
Arr(s) == [t |-> "arr", v |-> s]
Obj(s) == [t |-> "obj", v |-> s]
Null == [t |-> "null", v |-> << >>]
Undefined == [t |-> "undef", v |-> << >>]

\* x === Str(s), comparing the tag before the payload.
IsStr(x, s) == x.t = "str" /\ x.v = s

\* o[key] for a parsed object, whose members are kept in source order: the
\* last member of that name wins, a missing one reads as undefined.
RECURSIVE MemberFrom(_, _, _)
MemberFrom(ms, k, key) ==
  IF k = 0 THEN Undefined
  ELSE IF ms[k].key = key THEN ms[k].val
  ELSE MemberFrom(ms, k - 1, key)

\* x[key] for a value other than null and undefined.  Strings, numbers,
\* booleans and arrays have no property named speaker or text.
Prop(x, key) == IF x.t = "obj" THEN MemberFrom(x.v, Len(x.v), key) ELSE Undefined

(***************************************************************************)
(* JSON.parse.  Each parser returns [ok, val, pos]: pos is the position    *)
(* after the value it read.                                                *)
(***************************************************************************)
Fail == [ok |-> FALSE, val |-> Undefined, pos |-> 0]
Done(x, p) == [ok |-> TRUE, val |-> x, pos |-> p]

\* The character an escape sequence \c stands for (c is not u).
EscapeChar(c) ==
  CASE c = "\"" -> "\""
    [] c = "\\" -> "\\"
    [] c = "/" -> "/"
    [] c = "n" -> "\n"
    [] c = "t" -> "\t"
    [] c = "r" -> "\r"
    [] c = "b" -> "<BS>"
    [] c = "f" -> "\f"
    [] OTHER -> "<none>"

\* The characters of a string literal whose opening quote is before i.
\* A code point written \uXXXX is kept as one symbolic character.
RECURSIVE ParseChars(_, _, _)
ParseChars(s, i, acc) ==
  LET j == SkipTo(s, i, {Quote, Backslash, "\n", "\t", "\r"})
      got == acc \o SubSeq(s, i, j - 1)
  IN IF j > Len(s) THEN Fail
     ELSE IF s[j] = Quote THEN Done(Str(got), j + 1)
     ELSE IF s[j] # Backslash THEN Fail
     ELSE IF j + 1 > Len(s) THEN Fail
     ELSE IF s[j + 1] = "u" THEN
       IF j + 5 <= Len(s) /\ \A k \in 2..5 : s[j + k] \in HexDigit
       THEN ParseChars(s, j + 6,
                       Append(got, "\\u" \o s[j + 2] \o s[j + 3] \o s[j + 4] \o s[j + 5]))
       ELSE Fail
     ELSE IF EscapeChar(s[j + 1]) = "<none>" THEN Fail
     ELSE ParseChars(s, j + 2, Append(got, EscapeChar(s[j + 1])))

\* The first position >= i of s that holds no digit.
SkipDigits(s, i) == SkipWhile(s, i, Digit)

\* -? (0 | [1-9][0-9]*) (. [0-9]+)? ([eE] [+-]? [0-9]+)?
ParseNumber(s, i) ==
  LET a == IF i <= Len(s) /\ s[i] = "-" THEN i + 1 ELSE i
      b == IF a <= Len(s) /\ s[a] = "0" THEN a + 1 ELSE SkipDigits(s, a)
      f == IF b <= Len(s) /\ s[b] = "." THEN SkipDigits(s, b + 1) ELSE b
      fOk == f = b \/ f > b + 1
      x == IF f <= Len(s) /\ s[f] \in {"e", "E"}
           THEN IF f + 1 <= Len(s) /\ s[f + 1] \in {"+", "-"} THEN f + 2 ELSE f + 1
           ELSE f
      e == IF x > f THEN SkipDigits(s, x) ELSE f
      eOk == x = f \/ e > x
  IN IF b > a /\ fOk /\ eOk THEN Done(Num(SubSeq(s, i, e - 1)), e) ELSE Fail

RECURSIVE ParseValue(_, _)
RECURSIVE ParseElements(_, _, _)
RECURSIVE ParseMembers(_, _, _)

\* The elements of an array after the first: i is after an element.
ParseElements(s, i, acc) ==
  LET j == SkipJsonSpace(s, i)
  IN IF j > Len(s) THEN Fail
     ELSE IF s[j] = "]" THEN Done(Arr(acc), j + 1)
     ELSE IF s[j] # "," THEN Fail
     ELSE LET r == ParseValue(s, SkipJsonSpace(s, j + 1))
          IN IF r.ok THEN ParseElements(s, r.pos, Append(acc, r.val)) ELSE Fail

\* One member "key": value at i, then the rest of the object.
ParseMembers(s, i, acc) ==
  IF i > Len(s) \/ s[i] # Quote THEN Fail
  ELSE LET k == ParseChars(s, i + 1, << >>)
       IN IF ~k.ok THEN Fail
          ELSE LET c == SkipJsonSpace(s, k.pos)
               IN IF c > Len(s) \/ s[c] # ":" THEN Fail
                  ELSE LET r == ParseValue(s, SkipJsonSpace(s, c + 1))
                       IN IF ~r.ok THEN Fail
                          ELSE LET j == SkipJsonSpace(s, r.pos)
                                   ms == Append(acc, [key |-> k.val.v, val |-> r.val])
                               IN IF j > Len(s) THEN Fail
                                  ELSE IF s[j] = "}" THEN Done(Obj(ms), j + 1)
                                  ELSE IF s[j] # "," THEN Fail
                                  ELSE ParseMembers(s, SkipJsonSpace(s, j + 1), ms)

\* The JSON value that starts at i (white space already skipped).
ParseValue(s, i) ==
  IF i > Len(s) THEN Fail
  ELSE IF s[i] = Quote THEN ParseChars(s, i + 1, << >>)
  ELSE IF s[i] = "[" THEN
    LET j == SkipJsonSpace(s, i + 1)
    IN IF j <= Len(s) /\ s[j] = "]" THEN Done(Arr(<< >>), j + 1)
       ELSE LET r == ParseValue(s, j)
            IN IF r.ok THEN ParseElements(s, r.pos, << r.val >>) ELSE Fail
  ELSE IF s[i] = "{" THEN
    LET j == SkipJsonSpace(s, i + 1)
    IN IF j <= Len(s) /\ s[j] = "}" THEN Done(Obj(<< >>), j + 1)
       ELSE ParseMembers(s, j, << >>)
  ELSE IF StartsAt(s, i, <<"t", "r", "u", "e">>) THEN Done(Bool(<<"true">>), i + 4)
  ELSE IF StartsAt(s, i, <<"f", "a", "l", "s", "e">>) THEN Done(Bool(<<"false">>), i + 5)
  ELSE IF StartsAt(s, i, <<"n", "u", "l", "l">>) THEN Done(Null, i + 4)
  ELSE ParseNumber(s, i)

\* JSON.parse(s): ok is FALSE where JSON.parse throws a SyntaxError.
JSONParse(s) ==
  LET r == ParseValue(s, SkipJsonSpace(s, 1))
  IN IF r.ok /\ SkipJsonSpace(s, r.pos) > Len(s) THEN r ELSE Fail

(***************************************************************************)
(* Conversation recovery: fence stripping and the regular-expression       *)
(* fallback.                                                               *)
(***************************************************************************)
\* s.replace(/^```json\s*/, "")
StripJsonFence(s) ==
  IF StartsAt(s, 1, FenceJson) THEN From(s, SkipSpace(s, Len(FenceJson) + 1)) ELSE s

\* s.replace(/^```\s*/, "")
StripOpenFence(s) ==
  IF StartsAt(s, 1, Fence) THEN From(s, SkipSpace(s, Len(Fence) + 1)) ELSE s

\* s.replace(/\s*```$/, ""): the leftmost match starts at the white space
\* that precedes a fence ending the string.
StripCloseFence(s) ==
  IF Len(s) >= Len(Fence) /\ StartsAt(s, Len(s) - Len(Fence) + 1, Fence)
  THEN TrimEnd(SubSeq(s, 1, Len(s) - Len(Fence)))
  ELSE s

StripFences(s) == StripCloseFence(StripOpenFence(StripJsonFence(s)))

\* The first position >= i of s that holds a double quote (Len(s) + 1 if none).
NextQuote(s, i) == SkipTo(s, i, {Quote})

\* ((?:[^"\\]|\\.)*)" from i: the position of the closing quote, 0 if the
\* pattern fails.  No position holds both alternatives, so backtracking
\* finds no other match.
RECURSIVE TextEnd(_, _)
TextEnd(s, i) ==
  LET j == SkipTo(s, i, {Quote, Backslash})
  IN IF j > Len(s) THEN 0
     ELSE IF s[j] = Quote THEN j
     ELSE IF j + 1 <= Len(s) /\ s[j + 1] \notin LineTerminator THEN TextEnd(s, j + 2)
     ELSE 0

NoMatch == [ok |-> FALSE, speaker |-> << >>, text |-> << >>, end |-> 0]

\* One attempt of
\*   /\{\s*"speaker"\s*:\s*"([^"]+)"\s*,\s*"text"\s*:\s*"((?:[^"\\]|\\.)*)"\s*\}/
\* anchored at i: the two groups and the position after the match.
MatchObject(s, i) ==
  LET qSpeaker == <<Quote>> \o KeySpeaker \o <<Quote>>
      qText == <<Quote>> \o KeyText \o <<Quote>>
      a == SkipSpace(s, i + 1)
      b == SkipSpace(s, a + Len(qSpeaker))
      c == SkipSpace(s, b + 1)
      d == NextQuote(s, c + 1)
      e == SkipSpace(s, d + 1)
      f == SkipSpace(s, e + 1)
      g == SkipSpace(s, f + Len(qText))
      h == SkipSpace(s, g + 1)
      k == TextEnd(s, h + 1)
      m == SkipSpace(s, k + 1)
  IN IF /\ i <= Len(s) /\ s[i] = "{"
        /\ StartsAt(s, a, qSpeaker)
        /\ b <= Len(s) /\ s[b] = ":"
        /\ c <= Len(s) /\ s[c] = Quote
        /\ d <= Len(s) /\ d > c + 1
        /\ e <= Len(s) /\ s[e] = ","
        /\ StartsAt(s, f, qText)
        /\ g <= Len(s) /\ s[g] = ":"
        /\ h <= Len(s) /\ s[h] = Quote
        /\ k # 0
        /\ m <= Len(s) /\ s[m] = "}"
     THEN [ok |-> TRUE, speaker |-> SubSeq(s, c + 1, d - 1),
           text |-> SubSeq(s, h + 1, k - 1), end |-> m + 1]
     ELSE NoMatch

\* [...s.matchAll(regex)] from i: the matches in order, none overlapping.
RECURSIVE MatchAll(_, _)
MatchAll(s, i) ==
  LET j == SkipTo(s, i, {"{"})
      m == MatchObject(s, j)
  IN IF j > Len(s) THEN << >>
     ELSE IF m.ok THEN << m >> \o MatchAll(s, m.end)
     ELSE MatchAll(s, j + 1)

\* t.replace(/\\"/g, '"').replace(/\\n/g, '\n').replace(/\\\\/g, '\\')
Unescape(t) ==
  ReplaceAll(ReplaceAll(ReplaceAll(t, <<Backslash, Quote>>, <<Quote>>),
                        <<Backslash, "n">>, <<"\n">>),
             <<Backslash, Backslash>>, <<Backslash>>)

\* The object literal { speaker: l, text: x }.
Line(l, x) == Obj(<<[key |-> KeySpeaker, val |-> l], [key |-> KeyText, val |-> x]>>)

\* matches.map(match => ({ speaker: match[1], text: unescape(match[2]) }))
MatchLines(ms) == [k \in 1..Len(ms) |-> Line(Str(ms[k].speaker), Str(Unescape(ms[k].text)))]

(***************************************************************************)
(* Monologue recovery.                                                     *)
(***************************************************************************)
\* LastNewline for the pattern /\n\n/: only an adjacent newline ends the match.
LastNewlineAdjacent(s, p) ==
  IF p + 1 <= Len(s) /\ s[p + 1] = "\n" THEN p + 1 ELSE 0

\* The last newline of the white-space run that follows position p, 0 if
\* the run holds none: where /\n\s*\n/, matched at p, ends.
LastNewline(s, p) ==
  LET q == SkipSpace(s, p + 1) - 1
      nl == {j \in (p + 1)..q : s[j] = "\n"}
  IN IF nl = {} THEN 0 ELSE CHOOSE j \in nl : \A k \in nl : k <= j

\* s.split(/\n\s*\n/) from i, the current piece starting at start.
RECURSIVE SplitFrom(_, _, _)
SplitFrom(s, i, start) ==
  LET p == SkipTo(s, i, {"\n"})
      l == LastNewline(s, p)
  IN IF p > Len(s) THEN << SubSeq(s, start, Len(s)) >>
     ELSE IF l # 0
          THEN << SubSeq(s, start, p - 1) >> \o SplitFrom(s, l + 1, l + 1)
          ELSE SplitFrom(s, p + 1, start)

SplitParagraphs(s) == SplitFrom(s, 1, 1)

\* paragraphs.filter(p => p.trim().length > 0)
\*           .map(p => ({ speaker: "Narrator", text: p.trim() }))
RECURSIVE NarratorLines(_)
NarratorLines(ps) ==
  IF ps = << >> THEN << >>
  ELSE IF Len(Trim(Head(ps))) > 0
       THEN << Line(Str(LitNarrator), Str(Trim(Head(ps)))) >> \o NarratorLines(Tail(ps))
       ELSE NarratorLines(Tail(ps))

(***************************************************************************)
(* The part of generatePodcastScript that follows the generative request:  *)
(* recovery of the lines and their mapping to ScriptLine.                  *)
(***************************************************************************)
\* The length above which an unparseable response becomes one Expert line.
Threshold == 50

\* The outcome of the recovery stage: the branch taken, the stripped text
\* (conversation only), the value of the local variable script and the
\* error thrown, if any.
Recovered(tr, js, sc, er) == [tier |-> tr, jsonStr |-> js, script |-> sc, err |-> er]

\* if (isMonologue) { ... } : split into paragraphs, never JSON.parse.
RecoverMonologue(responseText) ==
  Recovered("monologue", << >>, Arr(NarratorLines(SplitParagraphs(responseText))), "none")

\* RecoverConversation with the tiers in the wrong order: the pattern is
\* tried before the strict parse.
RecoverConversationPatternFirst(responseText) ==
  LET jsonStr == StripFences(responseText)
      parsed == JSONParse(jsonStr)
      matches == MatchAll(jsonStr, 1)
  IN IF Len(matches) > 0 THEN Recovered("pattern", jsonStr, Arr(MatchLines(matches)), "none")
     ELSE IF parsed.ok THEN Recovered("strict", jsonStr, parsed.val, "none")
     ELSE IF Len(jsonStr) > Threshold
          THEN Recovered("degenerate", jsonStr, Arr(<< Line(Str(LitExpert), Str(jsonStr)) >>), "none")
          ELSE Recovered("fail", jsonStr, Arr(<< >>), "ScriptParseError")

\* else { ... } : strict parse, then the pattern, then the one-block fallback.
RecoverConversation(responseText) ==
  LET jsonStr == StripFences(responseText)
      parsed == JSONParse(jsonStr)
      matches == MatchAll(jsonStr, 1)
  IN IF parsed.ok THEN Recovered("strict", jsonStr, parsed.val, "none")
     ELSE IF Len(matches) > 0 THEN Recovered("pattern", jsonStr, Arr(MatchLines(matches)), "none")
     ELSE IF Len(jsonStr) > Threshold
          THEN Recovered("degenerate", jsonStr, Arr(<< Line(Str(LitExpert), Str(jsonStr)) >>), "none")
          ELSE Recovered("fail", jsonStr, Arr(<< >>), "ScriptParseError")

\* MapSpeaker without the placeholder label "Speaker 1".
MapSpeakerNoPlaceholder(s, cfg) ==
  IF cfg.mode = "monologue" THEN "Narrator"
  ELSE IF \/ IsStr(Prop(s, KeySpeaker), LitHost)
          \/ IsStr(Prop(s, KeySpeaker), cfg.hostName)
       THEN "Host"
       ELSE "Expert"

\* MapSpeaker without the literal label "Host".
MapSpeakerNoLiteral(s, cfg) ==
  IF cfg.mode = "monologue" THEN "Narrator"
  ELSE IF \/ IsStr(Prop(s, KeySpeaker), cfg.hostName)
          \/ IsStr(Prop(s, KeySpeaker), LitSpeaker1)
       THEN "Host"
       ELSE "Expert"

\* MapSpeaker that maps the label in monologue mode too.
MapSpeakerUnforced(s, cfg) ==
  IF \/ IsStr(Prop(s, KeySpeaker), LitHost)
     \/ IsStr(Prop(s, KeySpeaker), cfg.hostName)
     \/ IsStr(Prop(s, KeySpeaker), LitSpeaker1)
  THEN "Host"
  ELSE "Expert"

\* The speaker of the ScriptLine made from the recovered element s.
MapSpeaker(s, cfg) ==
  IF cfg.mode = "monologue" THEN "Narrator"
  ELSE IF \/ IsStr(Prop(s, KeySpeaker), LitHost)
          \/ IsStr(Prop(s, KeySpeaker), cfg.hostName)
          \/ IsStr(Prop(s, KeySpeaker), LitSpeaker1)
       THEN "Host"
       ELSE "Expert"

\* MapLines that skips the elements whose label is not recognized.
RECURSIVE MapKnownFrom(_, _, _)
MapKnownFrom(script, k, cfg) ==
  IF k > Len(script.v) THEN << >>
  ELSE IF \/ cfg.mode = "monologue"
          \/ MapSpeaker(script.v[k], cfg) = "Host"
          \/ IsStr(Prop(script.v[k], KeySpeaker), LitExpert)
       THEN << [speaker |-> MapSpeaker(script.v[k], cfg), text |-> Prop(script.v[k], KeyText)] >>
            \o MapKnownFrom(script, k + 1, cfg)
       ELSE MapKnownFrom(script, k + 1, cfg)

MapLinesDropUnknown(script, cfg) == MapKnownFrom(script, 1, cfg)

\* script.map(s => ({ speaker: speakerEnum, text: s.text }))
MapLines(script, cfg) ==
  [k \in 1..Len(script.v) |->
     [speaker |-> MapSpeaker(script.v[k], cfg), text |-> Prop(script.v[k], KeyText)]]

\* script.map(...) throws a TypeError: script is no array (it has no map
\* method), or an element is null (s.text reads a property of null).
MapThrows(script) ==
  \/ script.t # "arr"
  \/ \E k \in 1..Len(script.v) : script.v[k].t = "null"

(***************************************************************************)
(* The responses of the generative capability that the model draws.        *)
(***************************************************************************)
LitKore == <<"K", "o", "r", "e">>
LitDrSmith == <<"D", "r", ".", " ", "S", "m", "i", "t", "h">>

\* The sequences over S of length at most n.
SeqsUpTo(S, n) == UNION {[1..k -> S] : k \in 0..n}

\* JSON.stringify of a string, without the quotes.
RECURSIVE JsonEscape(_)
JsonEscape(t) ==
  IF t = << >> THEN << >>
  ELSE (CASE Head(t) = Quote -> <<Backslash, Quote>>
          [] Head(t) = Backslash -> <<Backslash, Backslash>>
          [] Head(t) = "\n" -> <<Backslash, "n">>
          [] Head(t) = "\t" -> <<Backslash, "t">>
          [] Head(t) = "\r" -> <<Backslash, "r">>
          [] Head(t) = "\f" -> <<Backslash, "f">>
          [] OTHER -> << Head(t) >>) \o JsonEscape(Tail(t))

\* One {speaker, text} object as the capability writes it: compact as
\* JSON.stringify(o) does, or indented as JSON.stringify(o, null, 1) does.
RenderObj(o, style) ==
  LET sp == <<Quote>> \o JsonEscape(o.speaker) \o <<Quote>>
      tx == <<Quote>> \o JsonEscape(o.text) \o <<Quote>>
      ks == <<Quote>> \o KeySpeaker \o <<Quote>>
      kt == <<Quote>> \o KeyText \o <<Quote>>
  IN IF style = "compact"
     THEN <<"{">> \o ks \o <<":">> \o sp \o <<",">> \o kt \o <<":">> \o tx \o <<"}">>
     ELSE <<"{", "\n", " ", " ">> \o ks \o <<":", " ">> \o sp \o <<",", "\n", " ", " ">>
          \o kt \o <<":", " ">> \o tx \o <<"\n", " ", "}">>

Separator(style) == IF style = "compact" THEN <<",">> ELSE <<",", "\n", " ">>

\* The objects of an array, separated, without the brackets.
RECURSIVE RenderObjs(_, _)
RenderObjs(os, style) ==
  IF os = << >> THEN << >>
  ELSE IF Len(os) = 1 THEN RenderObj(os[1], style)
  ELSE RenderObj(os[1], style) \o Separator(style) \o RenderObjs(Tail(os), style)

ArrayOpen(style) == IF style = "compact" THEN <<"[">> ELSE <<"[", "\n", " ">>
ArrayClose(style) == IF style = "compact" THEN <<"]">> ELSE <<"\n", "]">>

FenceOpen(fence) ==
  CASE fence = "json" -> FenceJson \o <<"\n">>
    [] fence = "plain" -> Fence \o <<"\n">>
    [] OTHER -> << >>

FenceClose(fence) == IF fence = "none" THEN << >> ELSE <<"\n">> \o Fence

\* The response text a source stands for.
\*   array:     a well-formed JSON array of src.objs
\*   unclosed:  the same array cut off right after its last object
\*   truncated: the array cut off src.cut characters into its last object
\*   junk, prose: src.body as it is
Render(src) ==
  CASE src.kind = "array" ->
         FenceOpen(src.fence) \o ArrayOpen(src.style) \o RenderObjs(src.objs, src.style)
         \o ArrayClose(src.style) \o FenceClose(src.fence)
    [] src.kind = "unclosed" ->
         FenceOpen(src.fence) \o ArrayOpen(src.style) \o RenderObjs(src.objs, src.style)
    [] src.kind = "truncated" ->
         LET n == Len(src.objs) - 1
         IN FenceOpen(src.fence) \o ArrayOpen(src.style)
            \o RenderObjs(SubSeq(src.objs, 1, n), src.style) \o Separator(src.style)
            \o SubSeq(RenderObj(src.objs[n + 1], src.style), 1, src.cut)
    [] OTHER -> src.body

Source(kd, os, st, fc, ct, bd) ==
  [kind |-> kd, objs |-> os, style |-> st, fence |-> fc, cut |-> ct, body |-> bd]

TextChars == {Quote, Backslash, "\n", "n"}
Texts == SeqsUpTo(TextChars, MaxTextLen)
Labels == {LitHost, LitExpert, LitKore, LitSpeaker1, LitDrSmith, LitNarrator}
Objs == [speaker : Labels, text : Texts]

\* Three objects for the longer arrays: a plain text, a text with a
\* backslash before a letter, a text with a quote and a newline.
SmallObjs ==
  { [speaker |-> LitHost, text |-> <<"n">>],
    [speaker |-> LitDrSmith, text |-> <<Backslash, "n">>],
    [speaker |-> LitKore, text |-> <<Quote, "\n">>] }

Styles == {"compact", "indented"}
Fences == {"none", "json", "plain"}

ArraySources ==
  {Source("array", os, st, fc, 0, << >>) :
     os \in SeqsUpTo(SmallObjs, MaxObjs), st \in Styles, fc \in Fences}
  \cup {Source("array", << o >>, "compact", "none", 0, << >>) : o \in Objs}

UnclosedSources ==
  {Source("unclosed", << o >>, "compact", "none", 0, << >>) : o \in Objs}

TruncatedSources ==
  UNION { {Source("truncated", Append(os, o), st, "none", ct, << >>) :
             ct \in 1..(Len(RenderObj(o, st)) - 1)} :
          os \in SeqsUpTo(SmallObjs, MaxObjs) \ {<< >>}, o \in SmallObjs, st \in Styles }

\* Texts that hold no {speaker, text} object, padded to either side of the
\* threshold.
JunkFrames ==
  { <<<< >>, << >>>>,
    <<<<"[">>, <<"]">>>>,
    <<<<Quote>>, <<Quote>>>>,
    <<<<"{">>, <<"}">>>>,
    <<<<"n", "u", "l", "l">>, << >>>>,
    <<<<"[", "1">>, <<"]">>>>,
    <<<<"[", "{", "}">>, <<"]">>>>,
    <<<<"[", "n", "u", "l", "l">>, <<"]">>>> }

JunkSources ==
  {Source("junk", << >>, "compact", "none", 0, fr[1] \o Pad(c, n) \o fr[2]) :
     fr \in JunkFrames, c \in {" ", "a"}, n \in 0..MaxPad}

ProseChars == {"A", " ", "\n"}

ProseSources ==
  {Source("prose", << >>, "compact", "none", 0, b) : b \in SeqsUpTo(ProseChars, MaxProseLen)}

Sources == ArraySources \cup UnclosedSources \cup TruncatedSources \cup JunkSources \cup ProseSources

HostNames == {LitKore, LitExpert}

Configs ==
  {[mode |-> "conversation", hostName |-> h] : h \in HostNames}
  \cup {[mode |-> "monologue", hostName |-> LitKore]}

(***************************************************************************)
(* The requests that generatePodcastScript and generatePodcastAudio        *)
(* compose.  A text built by a template literal is the sequence of its     *)
(* fragments: the fixed fragments are whole strings, the interpolated      *)
(* values are the characters of the value.                                 *)
(***************************************************************************)
MaxCalls == 2
MaxOutputTokens == 8192

LitFenrir == <<"F", "e", "n", "r", "i", "r">>

\* if (x): x is a non-empty string (undefined and "" are falsy).
Truthy(x) == x.t = "str" /\ x.v # << >>

\* getClient that accepts a missing key.
GetClientNeverThrows(key) == FALSE

\* !apiKey in getClient, which then throws the configuration error.
GetClientThrows(key) == ~key

PageRange(s, e) == [present |-> TRUE, start |-> s, end |-> e]
NoPageRange == [present |-> FALSE, start |-> Undefined, end |-> Undefined]

GenerateScriptInput(t, p, u, r) == [text |-> t, pdfBase64 |-> p, url |-> u, pageRange |-> r]
NoInput == GenerateScriptInput(Undefined, Undefined, Undefined, NoPageRange)

EndStr(inp) ==
  IF Truthy(inp.pageRange.end) THEN <<" to Page ">> \o inp.pageRange.end.v
  ELSE <<" to the end">>

FocusRange(inp) ==
  <<"FOCUS RANGE: Process content ONLY from Page ">> \o inp.pageRange.start.v \o EndStr(inp)
  \o <<". Ignore content before or after this range.">>

RangeInstruction(inp) ==
  IF Truthy(inp.pdfBase64) /\ Truthy(inp.pageRange.start) THEN FocusRange(inp) ELSE << >>

\* The instruction: one of two fixed texts, chosen by isMonologue, with the
\* range instruction interpolated.
SystemInstruction(inp, cfg) ==
  [monologue |-> (cfg.mode = "monologue"), range |-> RangeInstruction(inp)]

RangeText(inp) ==
  IF Truthy(inp.pageRange.start)
  THEN <<"(Pages ">> \o inp.pageRange.start.v \o <<"-">>
       \o (IF Truthy(inp.pageRange.end) THEN inp.pageRange.end.v ELSE <<"End">>) \o <<")">>
  ELSE <<"Full Document">>

\* The contents of the branch taken; html is the text fetched from input.url.
Contents(inp, cfg, html) ==
  IF Truthy(inp.pdfBase64)
  THEN [kind |-> "pdf", mode |-> cfg.mode, range |-> RangeText(inp), data |-> inp.pdfBase64.v]
  ELSE IF Truthy(inp.url)
  THEN [kind |-> "url", mode |-> cfg.mode, range |-> << >>, data |-> html]
  ELSE [kind |-> "text", mode |-> "none", range |-> << >>, data |-> inp.text.v]

ResponseSchema ==
  [type |-> "ARRAY",
   items |-> [type |-> "OBJECT",
              properties |-> [speaker |-> "STRING", text |-> "STRING"],
              required |-> <<"speaker", "text">>]]

\* generationConfig with the schema in both modes.
GenerationConfigAlwaysSchema(inp, cfg) ==
  [systemInstruction |-> SystemInstruction(inp, cfg),
   maxOutputTokens |-> MaxOutputTokens,
   responseMimeType |-> "application/json",
   responseSchema |-> ResponseSchema]

GenerationConfig(inp, cfg) ==
  IF ~(cfg.mode = "monologue")
  THEN [systemInstruction |-> SystemInstruction(inp, cfg),
        maxOutputTokens |-> MaxOutputTokens,
        responseMimeType |-> "application/json",
        responseSchema |-> ResponseSchema]
  ELSE [systemInstruction |-> SystemInstruction(inp, cfg),
        maxOutputTokens |-> MaxOutputTokens,
        responseMimeType |-> "text/plain"]

NoRequest == [model |-> "none"]

ScriptRequest(inp, cfg, html) ==
  [model |-> "gemini-2.5-flash",
   contents |-> Contents(inp, cfg, html),
   config |-> GenerationConfig(inp, cfg)]

\* The lines of the prompt, joined by blank lines: the text alone for a
\* monologue, "name: text" for a conversation.
PromptLines(ls, cfg) ==
  [k \in 1..Len(ls) |->
     IF cfg.mode = "monologue" THEN [name |-> << >>, text |-> ls[k].text]
     ELSE [name |-> IF ls[k].speaker = "Host" THEN cfg.hostName ELSE LitFenrir,
           text |-> ls[k].text]]

SpeechConfig(cfg) ==
  IF cfg.mode = "monologue"
  THEN [voiceConfig |-> "Puck"]
  ELSE [multiSpeakerVoiceConfig |->
          << [speaker |-> cfg.hostName, voiceName |-> "Puck"],
             [speaker |-> LitFenrir, voiceName |-> "Fenrir"] >>]

AudioRequest(ls, cfg) ==
  [model |-> "gemini-2.5-flash-preview-tts",
   contents |-> [monologue |-> (cfg.mode = "monologue"), lines |-> PromptLines(ls, cfg)],
   config |-> [responseModalities |-> <<"AUDIO">>, speechConfig |-> SpeechConfig(cfg)]]

\* The message of the Error a call rejects with.  A provider failure carries
\* the provider's message; a TypeError carries the engine's.
ErrorMessage(e) ==
  CASE e = "ConfigError" -> "API Key is missing. Please check your environment variables."
    [] e = "FetchError" -> "Could not fetch the URL. Please check if the URL is public and accessible."
    [] e = "NoInput" -> "No input provided"
    [] e = "ParseError" -> "Failed to parse script. Response might be empty or malformed."
    [] e = "NoAudioData" -> "No audio data returned from Gemini."
    [] e = "TypeError" -> "<engine message>"
    [] e = "GenerationError" -> "<provider message>"
    [] OTHER -> ""

(***************************************************************************)
(* One call of generatePodcastScript.                                      *)
(***************************************************************************)
VARIABLES
  pc,        \* idle, generating (awaiting generateContent), returned, threw
  config,    \* the PodcastConfig of the call
  source,    \* what the generative capability answered with
  raw,       \* responseText
  jsonStr,   \* the stripped text (conversation mode)
  script,    \* the local variable script, before the mapping
  tier,      \* the recovery branch taken
  result,    \* the ScriptLine[] the call resolves with
  err,       \* the error the call rejects with
  apiKey,    \* process.env.API_KEY is set
  fn,        \* the function called: none, script, audio
  input,     \* the GenerateScriptInput of the call
  scriptLines, \* the ScriptLine[] handed to generatePodcastAudio
  fetch,     \* how the fetch of the call ended: none, ok, status, network, body
  request,   \* what the call has sent to generateContent
  audio,     \* the audio data the call resolves with
  nFetch,    \* fetches issued so far
  nGen,      \* generateContent requests issued so far
  calls,     \* calls made so far
  appState,    \* App state
  appScript,   \* App state: script
  audioBase64, \* App state
  error,       \* App state
  inFlight,    \* the handlers of the App that are awaiting a promise
  outcomes     \* what a call of the App makes of each response, by mode

callVars == <<apiKey, fn, input, scriptLines, fetch, request, audio, nFetch, nGen, calls>>

appVars == <<appState, appScript, audioBase64, error, inFlight, outcomes>>

vars == <<pc, config, source, raw, jsonStr, script, tier, result, err, callVars, appVars>>

NoError == "<null>"
NoAudio == Null

\* The App as useState constructs it.
Mounted ==
  /\ appState = "Idle"
  /\ appScript = << >>
  /\ audioBase64 = NoAudio
  /\ error = NoError
  /\ inFlight = EmptyBag

\* No call has been made: the credential is set and nothing has been sent.
NoCall ==
  /\ apiKey = TRUE
  /\ fn = "none"
  /\ input = NoInput
  /\ scriptLines = << >>
  /\ fetch = "none"
  /\ request = NoRequest
  /\ audio = Undefined
  /\ nFetch = 0
  /\ nGen = 0
  /\ calls = 0

NoSource == Source("none", << >>, "compact", "none", 0, << >>)

Init ==
  /\ pc = "idle"
  /\ config \in Configs
  /\ source = NoSource
  /\ raw = << >>
  /\ jsonStr = << >>
  /\ script = Arr(<< >>)
  /\ tier = "none"
  /\ result = << >>
  /\ err = "none"
  /\ NoCall
  /\ Mounted
  /\ outcomes = {}

\* The call composes the instruction and the contents and issues the
\* generative request.
Invoke ==
  /\ pc = "idle"
  /\ pc' = "generating"
  /\ UNCHANGED <<config, source, raw, jsonStr, script, tier, result, err>>
  /\ UNCHANGED callVars
  /\ UNCHANGED appVars

\* generatePodcastScript that recovers every response as a conversation,
\* whatever the mode of its config.
GenerateReturnAsConversation(src) ==
  /\ pc = "generating"
  /\ \E r \in {RecoverConversation(Render(src))} :
        /\ source' = src
        /\ raw' = Render(src)
        /\ jsonStr' = r.jsonStr
        /\ script' = r.script
        /\ tier' = r.tier
        /\ IF r.err # "none"
           THEN pc' = "threw" /\ err' = r.err /\ result' = << >>
           ELSE IF MapThrows(r.script)
           THEN pc' = "threw" /\ err' = "TypeError" /\ result' = << >>
           ELSE pc' = "returned" /\ err' = "none" /\ result' = MapLines(r.script, config)
  /\ UNCHANGED config
  /\ UNCHANGED callVars
  /\ UNCHANGED appVars

\* generateContent resolves with the text of src; the call recovers the
\* lines, maps them and resolves, or rejects.
GenerateReturn(src) ==
  /\ pc = "generating"
  /\ \E r \in {IF config.mode = "monologue" THEN RecoverMonologue(Render(src))
               ELSE RecoverConversation(Render(src))} :
        /\ source' = src
        /\ raw' = Render(src)
        /\ jsonStr' = r.jsonStr
        /\ script' = r.script
        /\ tier' = r.tier
        /\ IF r.err # "none"
           THEN pc' = "threw" /\ err' = r.err /\ result' = << >>
           ELSE IF MapThrows(r.script)
           THEN pc' = "threw" /\ err' = "TypeError" /\ result' = << >>
           ELSE pc' = "returned" /\ err' = "none" /\ result' = MapLines(r.script, config)
  /\ UNCHANGED config
  /\ UNCHANGED callVars
  /\ UNCHANGED appVars

\* generateContent rejects; the catch block rethrows.
GenerateFail ==
  /\ pc = "generating"
  /\ pc' = "threw"
  /\ err' = "GenerationError"
  /\ UNCHANGED <<config, source, raw, jsonStr, script, tier, result>>
  /\ UNCHANGED callVars
  /\ UNCHANGED appVars

Next ==
  \/ Invoke
  \/ \E src \in Sources : GenerateReturn(src)
  \/ GenerateFail

Spec == Init /\ [][Next]_vars

(***************************************************************************)
(* The calls of generatePodcastScript and generatePodcastAudio, from the   *)
(* credential check to the resolution, for every input.                    *)
(***************************************************************************)
InputTexts == {Undefined, Str(<< >>), Str(<<"T">>)}
InputPdfs == {Undefined, Str(<< >>), Str(<<"P">>)}
InputUrls == {Undefined, Str(<<"U">>)}
StartPages == {Str(<< >>), Str(<<"1">>), Str(<<"5">>)}
EndPages == {Str(<< >>), Str(<<"3">>)}
PageRanges == {NoPageRange} \cup {PageRange(st, en) : st \in StartPages, en \in EndPages}

Inputs ==
  {GenerateScriptInput(t, p, u, r) :
     t \in InputTexts, p \in InputPdfs, u \in InputUrls, r \in PageRanges}

\* The responses the calls draw: a one-object array, an empty array, an
\* empty text, two paragraphs, and 51 characters that hold no object.
CallSources ==
  { Source("array", << [speaker |-> LitHost, text |-> <<"n">>] >>, "compact", "none", 0, << >>),
    Source("array", << >>, "compact", "none", 0, << >>),
    Source("junk", << >>, "compact", "none", 0, << >>),
    Source("prose", << >>, "compact", "none", 0, <<"A", "\n", "\n", "A">>),
    Source("junk", << >>, "compact", "none", 0, Pad("a", Threshold + 1)) }

\* The scripts handed to generatePodcastAudio.
AudioScripts ==
  { << >>,
    << [speaker |-> "Narrator", text |-> Str(<<"A">>)] >>,
    << [speaker |-> "Host", text |-> Str(<<"n">>)] >>,
    << [speaker |-> "Host", text |-> Str(<<"n">>)], [speaker |-> "Expert", text |-> Str(<<"A">>)] >> }

\* response.candidates?.[0]?.content?.parts?.[0]?.inlineData?.data
AudioData == {Undefined, Str(<< >>), Str(<<"R", "I", "F", "F">>)}

FetchOutcomes == {"ok", "status", "network", "body"}
Html == <<"<html>">>

CallInit ==
  /\ pc = "idle"
  /\ config = [mode |-> "monologue", hostName |-> LitKore]
  /\ source = NoSource
  /\ raw = << >>
  /\ jsonStr = << >>
  /\ script = Arr(<< >>)
  /\ tier = "none"
  /\ result = << >>
  /\ err = "none"
  /\ apiKey \in BOOLEAN
  /\ fn = "none"
  /\ input = NoInput
  /\ scriptLines = << >>
  /\ fetch = "none"
  /\ request = NoRequest
  /\ audio = Undefined
  /\ nFetch = 0
  /\ nGen = 0
  /\ calls = 0
  /\ Mounted
  /\ outcomes = {}

\* The locals of a call that has just been entered.
Entered ==
  /\ source' = NoSource
  /\ raw' = << >>
  /\ jsonStr' = << >>
  /\ script' = Arr(<< >>)
  /\ tier' = "none"
  /\ result' = << >>
  /\ fetch' = "none"
  /\ audio' = Undefined

\* generatePodcastScript(inp, cfg) up to its first await: getClient, the
\* instruction, and the branch of the contents.
CallScript(inp, cfg) ==
  /\ pc = "idle"
  /\ calls < MaxCalls
  /\ calls' = calls + 1
  /\ fn' = "script"
  /\ input' = inp
  /\ config' = cfg
  /\ scriptLines' = << >>
  /\ Entered
  /\ IF GetClientThrows(apiKey)
     THEN pc' = "threw" /\ err' = "ConfigError" /\ request' = NoRequest
          /\ UNCHANGED <<nFetch, nGen>>
     ELSE IF Truthy(inp.pdfBase64)
     THEN pc' = "generating" /\ err' = "none" /\ request' = ScriptRequest(inp, cfg, << >>)
          /\ nGen' = nGen + 1 /\ UNCHANGED nFetch
     ELSE IF Truthy(inp.url)
     THEN pc' = "fetching" /\ err' = "none" /\ request' = NoRequest
          /\ nFetch' = nFetch + 1 /\ UNCHANGED nGen
     ELSE IF Truthy(inp.text)
     THEN pc' = "generating" /\ err' = "none" /\ request' = ScriptRequest(inp, cfg, << >>)
          /\ nGen' = nGen + 1 /\ UNCHANGED nFetch
     ELSE pc' = "threw" /\ err' = "NoInput" /\ request' = NoRequest
          /\ UNCHANGED <<nFetch, nGen>>
  /\ UNCHANGED apiKey
  /\ UNCHANGED appVars

\* fetchUrlContent that fetches again when the fetch has failed.
FetchReturnRetrying(o) ==
  /\ pc = "fetching"
  /\ fetch' = o
  /\ IF o = "ok"
     THEN pc' = "generating" /\ request' = ScriptRequest(input, config, Html)
          /\ nGen' = nGen + 1 /\ UNCHANGED <<err, nFetch>>
     ELSE pc' = "fetching" /\ nFetch' = nFetch + 1 /\ UNCHANGED <<err, request, nGen>>
  /\ UNCHANGED <<config, source, raw, jsonStr, script, tier, result>>
  /\ UNCHANGED <<apiKey, fn, input, scriptLines, audio, calls>>
  /\ UNCHANGED appVars

\* fetchUrlContent that does not look at response.ok.
FetchReturnIgnoringStatus(o) ==
  /\ pc = "fetching"
  /\ fetch' = o
  /\ IF o \in {"ok", "status"}
     THEN pc' = "generating" /\ request' = ScriptRequest(input, config, Html)
          /\ nGen' = nGen + 1 /\ UNCHANGED err
     ELSE pc' = "threw" /\ err' = "FetchError" /\ UNCHANGED <<request, nGen>>
  /\ UNCHANGED <<config, source, raw, jsonStr, script, tier, result>>
  /\ UNCHANGED <<apiKey, fn, input, scriptLines, audio, nFetch, calls>>
  /\ UNCHANGED appVars

\* fetchUrlContent settles: with the text of the page, or with the error of
\* its catch block when the status is not 2xx (status), fetch rejects
\* (network) or response.text() rejects (body).  On success the call goes
\* on to generateContent.
FetchReturn(o) ==
  /\ pc = "fetching"
  /\ fetch' = o
  /\ IF o = "ok"
     THEN pc' = "generating" /\ request' = ScriptRequest(input, config, Html)
          /\ nGen' = nGen + 1 /\ UNCHANGED err
     ELSE pc' = "threw" /\ err' = "FetchError" /\ UNCHANGED <<request, nGen>>
  /\ UNCHANGED <<config, source, raw, jsonStr, script, tier, result>>
  /\ UNCHANGED <<apiKey, fn, input, scriptLines, audio, nFetch, calls>>
  /\ UNCHANGED appVars

\* generatePodcastAudio(ls, cfg) up to its await: getClient, the prompt, the
\* speech configuration, generateContent.
CallAudio(ls, cfg) ==
  /\ pc = "idle"
  /\ calls < MaxCalls
  /\ calls' = calls + 1
  /\ fn' = "audio"
  /\ input' = NoInput
  /\ config' = cfg
  /\ scriptLines' = ls
  /\ Entered
  /\ IF GetClientThrows(apiKey)
     THEN pc' = "threw" /\ err' = "ConfigError" /\ request' = NoRequest /\ UNCHANGED nGen
     ELSE pc' = "synthesizing" /\ err' = "none" /\ request' = AudioRequest(ls, cfg)
          /\ nGen' = nGen + 1
  /\ UNCHANGED <<apiKey, nFetch>>
  /\ UNCHANGED appVars

\* generateContent resolves; a response without audio data is an error.
AudioReturn(data) ==
  /\ pc = "synthesizing"
  /\ IF ~Truthy(data)
     THEN pc' = "threw" /\ err' = "NoAudioData" /\ UNCHANGED audio
     ELSE pc' = "returned" /\ audio' = data /\ UNCHANGED err
  /\ UNCHANGED <<config, source, raw, jsonStr, script, tier, result>>
  /\ UNCHANGED <<apiKey, fn, input, scriptLines, fetch, request, nFetch, nGen, calls>>
  /\ UNCHANGED appVars

\* generateContent rejects; the catch block rethrows.
AudioFail ==
  /\ pc = "synthesizing"
  /\ pc' = "threw"
  /\ err' = "GenerationError"
  /\ UNCHANGED <<config, source, raw, jsonStr, script, tier, result>>
  /\ UNCHANGED callVars
  /\ UNCHANGED appVars

\* The caller has the result or the error; the frame of the call is gone
\* and the caller may call again.
CallerContinues ==
  /\ pc \in {"returned", "threw"}
  /\ pc' = "idle"
  /\ config' = [mode |-> "monologue", hostName |-> LitKore]
  /\ Entered
  /\ err' = "none"
  /\ fn' = "none"
  /\ input' = NoInput
  /\ scriptLines' = << >>
  /\ request' = NoRequest
  /\ UNCHANGED <<apiKey, nFetch, nGen, calls>>
  /\ UNCHANGED appVars

CallNext ==
  \/ \E inp \in Inputs, cfg \in Configs : CallScript(inp, cfg)
  \/ \E o \in FetchOutcomes : FetchReturn(o)
  \/ \E src \in CallSources : GenerateReturn(src)
  \/ GenerateFail
  \/ \E ls \in AudioScripts, cfg \in Configs : CallAudio(ls, cfg)
  \/ \E data \in AudioData : AudioReturn(data)
  \/ AudioFail
  \/ CallerContinues

CallSpec == CallInit /\ [][CallNext]_vars

(***************************************************************************)
(* The App: its state, its handlers, and the continuations of              *)
(* handleGenerateScript and handleGenerateAudio after their awaits.  A     *)
(* handler that is awaiting is an element of the bag inFlight.  The form   *)
(* (inputMode, text, url, pdfFile, startPage, endPage, podcastMode) is     *)
(* written by the widgets and read by the two handlers alone; it is the    *)
(* input of the handlers.  The page fields keep the values that useState   *)
(* and clearFile give them; CallSpec takes generatePodcastScript through   *)
(* every page range.                                                       *)
(***************************************************************************)
MaxInFlight == 2

DemoText == <<"Preparation for Job Interviews">>
TextValues == {<< >>, <<" ">>, DemoText}
UrlValues == {<< >>, <<"U">>}
InputModes == {"text", "pdf", "url"}
PodcastModes == {"conversation", "monologue"}

\* What the form can hold: any text and url, and no file, a PDF of no
\* bytes or a PDF (handleFileChange takes PDFs only).
Forms ==
  [inputMode : InputModes, text : TextValues, url : UrlValues,
   pdfFile : {"null", "empty", "pdf"},
   startPage : {<<"1">>}, endPage : {<< >>},
   podcastMode : PodcastModes]

\* The config object of the render.
AppConfig(m) == [mode |-> m, hostName |-> LitKore]

\* reader.result.split(',')[1]: the part of the data URL after the comma,
\* which is empty for a file of no bytes.
FileToBase64(file) == IF file = "empty" THEN Str(<< >>) ELSE Str(<<"P">>)

\* The input that handleGenerateScript builds from the form f.
BuildInput(f) ==
  IF f.inputMode = "pdf" /\ f.pdfFile # "null"
  THEN GenerateScriptInput(Undefined, FileToBase64(f.pdfFile), Undefined,
                           PageRange(Str(f.startPage), Str(f.endPage)))
  ELSE IF f.inputMode = "url"
  THEN GenerateScriptInput(Undefined, Undefined, Str(f.url), NoPageRange)
  ELSE GenerateScriptInput(Str(f.text), Undefined, Undefined, NoPageRange)

\* getButtonDisabledState that also disables the button in the Error state.
getButtonDisabledStateOnError(f) ==
  IF appState \in {"GeneratingScript", "GeneratingAudio", "Error"} THEN TRUE
  ELSE IF f.inputMode = "text" THEN Trim(f.text) = << >>
  ELSE IF f.inputMode = "pdf" THEN f.pdfFile = "null"
  ELSE IF f.inputMode = "url" THEN Trim(f.url) = << >>
  ELSE TRUE

getButtonDisabledState(f) ==
  IF appState = "GeneratingScript" \/ appState = "GeneratingAudio" THEN TRUE
  ELSE IF f.inputMode = "text" THEN Trim(f.text) = << >>
  ELSE IF f.inputMode = "pdf" THEN f.pdfFile = "null"
  ELSE IF f.inputMode = "url" THEN Trim(f.url) = << >>
  ELSE TRUE

\* The three early returns of handleGenerateScript.
ValidationReturns(f) ==
  \/ f.inputMode = "text" /\ Trim(f.text) = << >>
  \/ f.inputMode = "pdf" /\ f.pdfFile = "null"
  \/ f.inputMode = "url" /\ Trim(f.url) = << >>

Rejected(e) == [ok |-> FALSE, err |-> e, value |-> << >>]
Resolved(v) == [ok |-> TRUE, err |-> "none", value |-> v]

\* The call settles on the recovered lines r: the mapping, or the error
\* that stopped it.
SettleOn(r, cfg) ==
  IF r.err # "none" THEN Rejected(r.err)
  ELSE IF MapThrows(r.script) THEN Rejected("TypeError")
  ELSE Resolved(MapLines(r.script, cfg))

\* What generatePodcastScript does with the response src: recovery, then
\* the mapping.
ScriptOutcome(src, cfg) ==
  SettleOn(IF cfg.mode = "monologue" THEN RecoverMonologue(Render(src))
           ELSE RecoverConversation(Render(src)), cfg)

\* The responses the App's calls draw: a one-object array, an empty text,
\* two paragraphs.
AppSources ==
  { Source("array", << [speaker |-> LitHost, text |-> <<"n">>] >>, "compact", "none", 0, << >>),
    Source("junk", << >>, "compact", "none", 0, << >>),
    Source("prose", << >>, "compact", "none", 0, <<"A", "\n", "\n", "A">>) }

\* What the call makes of each response, paired with the mode of its
\* config.  The App's specifications hold this table in outcomes from the
\* start: it does not depend on the state.
OutcomesByMode ==
  {<<m, ScriptOutcome(src, AppConfig(m))>> : m \in PodcastModes, src \in AppSources}

\* How generateContent can settle, and with it the call.
GenerateOutcomes(cfg) ==
  {Rejected("GenerationError")} \cup {p[2] : p \in {q \in outcomes : q[1] = cfg.mode}}

\* How building the contents of the request can fail: the URL branch is
\* the only one that awaits, and it is taken when there is no PDF.
ContentsFailures(inp) ==
  IF Truthy(inp.pdfBase64) THEN {}
  ELSE IF Truthy(inp.url) THEN {Rejected("FetchError")}
  ELSE IF Truthy(inp.text) THEN {}
  ELSE {Rejected("NoInput")}

\* How generatePodcastScript(inp, cfg) can settle.
ScriptOutcomes(inp, cfg, key) ==
  IF GetClientThrows(key) THEN {Rejected("ConfigError")}
  ELSE IF Rejected("NoInput") \in ContentsFailures(inp) THEN {Rejected("NoInput")}
  ELSE ContentsFailures(inp) \cup GenerateOutcomes(cfg)

\* The audio data that the capability returns for a request: the speech of
\* its contents.
AudioOf(ls, cfg) ==
  [t |-> "str", v |-> <<"R", "I", "F", "F">>, contents |-> AudioRequest(ls, cfg).contents]

RejectedAudio(e) == [ok |-> FALSE, err |-> e, value |-> NoAudio]

\* How generatePodcastAudio(ls, cfg) can settle.
AudioOutcomes(ls, cfg, key) ==
  IF GetClientThrows(key) THEN {RejectedAudio("ConfigError")}
  ELSE {RejectedAudio("GenerationError"), RejectedAudio("NoAudioData"),
        Resolved(AudioOf(ls, cfg))}

\* How the call that the handler h awaits can settle.
CallOutcomes(h) ==
  IF h.fn = "script" THEN ScriptOutcomes(h.input, h.config, apiKey)
  ELSE AudioOutcomes(h.script, h.config, apiKey)

Awaiting == BagToSet(inFlight)
Started(h) == inFlight (+) SetToBag({h})
Resumed(h) == inFlight (-) SetToBag({h})

\* err.message || "Failed to generate script. Please try again."
ScriptErrorText(e) ==
  IF ErrorMessage(e) = "" THEN "Failed to generate script. Please try again."
  ELSE ErrorMessage(e)

AudioErrorText == "Failed to generate audio. The content might be too long for a single pass."

serviceVars == <<pc, config, source, raw, jsonStr, script, tier, result, err, callVars, outcomes>>

AppInit ==
  /\ pc = "idle"
  /\ config = [mode |-> "monologue", hostName |-> LitKore]
  /\ source = NoSource
  /\ raw = << >>
  /\ jsonStr = << >>
  /\ script = Arr(<< >>)
  /\ tier = "none"
  /\ result = << >>
  /\ err = "none"
  /\ apiKey \in BOOLEAN
  /\ fn = "none"
  /\ input = NoInput
  /\ scriptLines = << >>
  /\ fetch = "none"
  /\ request = NoRequest
  /\ audio = Undefined
  /\ nFetch = 0
  /\ nGen = 0
  /\ calls = 0
  /\ Mounted
  /\ outcomes = OutcomesByMode

\* The user picks a file that is no PDF: the file is not taken and the
\* error is shown.
handleFileChange ==
  /\ error' = "Please select a valid PDF file."
  /\ UNCHANGED <<appState, appScript, audioBase64, inFlight>>
  /\ UNCHANGED serviceVars

\* handleGenerateScript with the form f, up to its first await:
\* fileToBase64 in pdf mode, generatePodcastScript otherwise.
handleGenerateScript(f) ==
  /\ ~getButtonDisabledState(f)
  /\ ~ValidationReturns(f)
  /\ BagCardinality(inFlight) < MaxInFlight
  /\ appState' = "GeneratingScript"
  /\ error' = NoError
  /\ inFlight' = Started(
       [fn |-> "script",
        stage |-> IF f.inputMode = "pdf" /\ f.pdfFile # "null" THEN "reading" ELSE "calling",
        input |-> BuildInput(f),
        config |-> AppConfig(f.podcastMode)])
  /\ UNCHANGED <<appScript, audioBase64>>
  /\ UNCHANGED serviceVars

\* fileToBase64 settles: the handler goes on to generatePodcastScript, or
\* the reader failed and the catch block runs with an error event that has
\* no message.
FileRead(h, ok) ==
  /\ h \in Awaiting
  /\ h.fn = "script"
  /\ h.stage = "reading"
  /\ IF ok
     THEN /\ inFlight' = Resumed(h) (+) SetToBag({[h EXCEPT !.stage = "calling"]})
          /\ UNCHANGED <<appState, error>>
     ELSE /\ inFlight' = Resumed(h)
          /\ error' = ScriptErrorText("ReaderError")
          /\ appState' = "Error"
  /\ UNCHANGED <<appScript, audioBase64>>
  /\ UNCHANGED serviceVars

\* handleGenerateScript that appends the new lines to the script.
ScriptSettlesAppending(h, o) ==
  /\ h \in Awaiting
  /\ h.fn = "script"
  /\ h.stage = "calling"
  /\ inFlight' = Resumed(h)
  /\ IF o.ok
     THEN appScript' = appScript \o o.value /\ appState' = "ScriptReady" /\ UNCHANGED error
     ELSE error' = ScriptErrorText(o.err) /\ appState' = "Error" /\ UNCHANGED appScript
  /\ UNCHANGED audioBase64
  /\ UNCHANGED serviceVars

\* handleGenerateScript whose catch block shows the error and leaves
\* appState as it is.
ScriptSettlesKeepingState(h, o) ==
  /\ h \in Awaiting
  /\ h.fn = "script"
  /\ h.stage = "calling"
  /\ inFlight' = Resumed(h)
  /\ IF o.ok
     THEN appScript' = o.value /\ appState' = "ScriptReady" /\ UNCHANGED error
     ELSE error' = ScriptErrorText(o.err) /\ UNCHANGED <<appState, appScript>>
  /\ UNCHANGED audioBase64
  /\ UNCHANGED serviceVars

\* generatePodcastScript settles with o, one of CallOutcomes(h), and
\* handleGenerateScript resumes.
ScriptSettles(h, o) ==
  /\ h \in Awaiting
  /\ h.fn = "script"
  /\ h.stage = "calling"
  /\ inFlight' = Resumed(h)
  /\ IF o.ok
     THEN appScript' = o.value /\ appState' = "ScriptReady" /\ UNCHANGED error
     ELSE error' = ScriptErrorText(o.err) /\ appState' = "Error" /\ UNCHANGED appScript
  /\ UNCHANGED audioBase64
  /\ UNCHANGED serviceVars

\* handleGenerateAudio under podcastMode m, up to its await.  The button is
\* shown while the script has lines and is disabled while appState is
\* GeneratingAudio.
handleGenerateAudio(m) ==
  /\ Len(appScript) > 0
  /\ appState # "GeneratingAudio"
  /\ BagCardinality(inFlight) < MaxInFlight
  /\ appState' = "GeneratingAudio"
  /\ error' = NoError
  /\ inFlight' = Started([fn |-> "audio", script |-> appScript, config |-> AppConfig(m)])
  /\ UNCHANGED <<appScript, audioBase64>>
  /\ UNCHANGED serviceVars

\* handleGenerateAudio that drops the audio it has when the call fails.
AudioSettlesDroppingAudio(h, o) ==
  /\ h \in Awaiting
  /\ h.fn = "audio"
  /\ inFlight' = Resumed(h)
  /\ IF o.ok
     THEN audioBase64' = o.value /\ appState' = "Playing" /\ UNCHANGED error
     ELSE error' = AudioErrorText /\ appState' = "Error" /\ audioBase64' = NoAudio
  /\ UNCHANGED appScript
  /\ UNCHANGED serviceVars

\* generatePodcastAudio settles with o, one of CallOutcomes(h), and
\* handleGenerateAudio resumes.
AudioSettles(h, o) ==
  /\ h \in Awaiting
  /\ h.fn = "audio"
  /\ inFlight' = Resumed(h)
  /\ IF o.ok
     THEN audioBase64' = o.value /\ appState' = "Playing" /\ UNCHANGED error
     ELSE error' = AudioErrorText /\ appState' = "Error" /\ UNCHANGED audioBase64
  /\ UNCHANGED appScript
  /\ UNCHANGED serviceVars

AppNext ==
  \/ handleFileChange
  \/ \E f \in Forms : handleGenerateScript(f)
  \/ \E h \in Awaiting, ok \in BOOLEAN : FileRead(h, ok)
  \/ \E m \in PodcastModes : handleGenerateAudio(m)
  \/ \E h \in Awaiting : \E o \in CallOutcomes(h) :
        \/ ScriptSettles(h, o)
        \/ AudioSettles(h, o)

AppSpec == AppInit /\ [][AppNext]_vars

\* Every external call returns or fails: the file reader, the script call
\* and the audio call of a handler in flight settle at some time.
CallsSettle ==
  /\ WF_vars(\E h \in Awaiting, ok \in BOOLEAN : FileRead(h, ok))
  /\ WF_vars(\E h \in Awaiting : \E o \in CallOutcomes(h) : ScriptSettles(h, o))
  /\ WF_vars(\E h \in Awaiting : \E o \in CallOutcomes(h) : AudioSettles(h, o))

\* The forms of the fair specification, all of them filled in: a text, a
\* URL and a PDF, with or without bytes, in every input mode and either
\* podcast mode.
FairForms ==
  {f \in Forms : /\ f.text = DemoText /\ f.url = <<"U">> /\ f.pdfFile # "null"}

AppFairNext ==
  \/ handleFileChange
  \/ \E f \in FairForms : handleGenerateScript(f)
  \/ \E h \in Awaiting, ok \in BOOLEAN : FileRead(h, ok)
  \/ \E m \in PodcastModes : handleGenerateAudio(m)
  \/ \E h \in Awaiting : \E o \in CallOutcomes(h) :
        \/ ScriptSettles(h, o)
        \/ AudioSettles(h, o)

AppFairSpec == AppInit /\ [][AppFairNext]_vars /\ CallsSettle

(***************************************************************************)
(* Conversation recovery of a response that the capability wrapped in a    *)
(* code fence: the text of a source, a fence on either side, and white     *)
(* space around the text and around the fences.                            *)
(***************************************************************************)
MaxFencedProseLen == 3

\* The texts that get wrapped: arrays of objects, short prose, and runs of
\* letters on either side of the threshold with or without a space at
\* their end.
FencedSources ==
  {Source("array", os, "compact", "none", 0, << >>) : os \in SeqsUpTo(SmallObjs, MaxObjs)}
  \cup {Source("prose", << >>, "compact", "none", 0, b) : b \in SeqsUpTo(ProseChars, MaxFencedProseLen)}
  \cup {Source("junk", << >>, "compact", "none", 0, Pad("a", n) \o tl) :
          n \in (Threshold - 2)..(Threshold + 1), tl \in {<< >>, <<" ">>}}

\* A wrapper: the tag of the opening fence, the white space before the
\* opening fence, between the fences and the text, and after the closing
\* fence.
Wrappers ==
  [tag : {"json", "plain"}, lead : {<< >>, <<"\n">>}, inner : {<< >>, <<"\n">>},
   trail : {<< >>, <<"\n">>}]

WrapInFence(t, w) ==
  w.lead \o (IF w.tag = "json" THEN FenceJson ELSE Fence) \o w.inner
  \o t \o w.inner \o Fence \o w.trail

FenceInit == Init /\ config.mode = "conversation"

\* generateContent resolves with the text of src wrapped in w; the call
\* recovers the lines, maps them and resolves, or rejects.
GenerateReturnFenced(src, w) ==
  /\ pc = "generating"
  /\ \E r \in {RecoverConversation(WrapInFence(Render(src), w))} :
        /\ source' = src
        /\ raw' = WrapInFence(Render(src), w)
        /\ jsonStr' = r.jsonStr
        /\ script' = r.script
        /\ tier' = r.tier
        /\ IF r.err # "none"
           THEN pc' = "threw" /\ err' = r.err /\ result' = << >>
           ELSE IF MapThrows(r.script)
           THEN pc' = "threw" /\ err' = "TypeError" /\ result' = << >>
           ELSE pc' = "returned" /\ err' = "none" /\ result' = MapLines(r.script, config)
  /\ UNCHANGED config
  /\ UNCHANGED callVars
  /\ UNCHANGED appVars

FenceNext ==
  \/ Invoke
  \/ \E src \in FencedSources, w \in Wrappers : GenerateReturnFenced(src, w)

FenceSpec == FenceInit /\ [][FenceNext]_vars

(***************************************************************************)
(* Properties.                                                             *)
(***************************************************************************)
Finished == pc \in {"returned", "threw"}

Conversation == config.mode = "conversation"

Monologue == config.mode = "monologue"

\* The recovered elements { speaker, text } the objects os stand for.
LinesOf(os) == [k \in 1..Len(os) |-> Line(Str(os[k].speaker), Str(os[k].text))]

\* C1: in conversation mode a well-formed JSON array of {speaker, text}
\* objects is recovered by the strict parse, and the call returns one line
\* per element, in the same order, each with the text of its element.
StrictParseExact ==
  (Finished /\ Conversation /\ source.kind = "array") =>
    /\ pc = "returned"
    /\ tier = "strict"
    /\ Len(result) = Len(source.objs)
    /\ \A k \in 1..Len(result) : IsStr(result[k].text, source.objs[k].text)

\* Witness of C1: an indented array of two objects, the second with a quote
\* and a newline in its text, has been returned.
StrictParseWitness ==
  /\ pc = "returned" /\ Conversation /\ source.kind = "array"
  /\ source.fence = "none" /\ source.style = "indented"
  /\ Len(source.objs) = 2
  /\ source.objs[2].text = <<Quote, "\n">>

\* C2: in conversation mode an array cut off in the middle of its (N+1)-th
\* object, N >= 1, is recovered by the pattern as exactly its first N
\* objects, in order, speaker and text unchanged.
TruncationKeepsPrefix ==
  (Finished /\ Conversation /\ source.kind = "truncated") =>
    /\ tier = "pattern"
    /\ script = Arr(LinesOf(SubSeq(source.objs, 1, Len(source.objs) - 1)))

\* C3: a text that is JSON-escaped, embedded in a {speaker, text} object and
\* recovered by the pattern comes back character for character.
UnescapeInvertsEscape ==
  (Finished /\ Conversation /\ source.kind = "unclosed") =>
    /\ tier = "pattern"
    /\ Len(script.v) = 1
    /\ IsStr(Prop(script.v[1], KeyText), source.objs[1].text)

\* The lines of s: the pieces between its newlines.
RECURSIVE TextLines(_, _)
TextLines(s, i) ==
  LET j == SkipTo(s, i, {"\n"})
  IN IF j > Len(s) THEN << From(s, i) >>
     ELSE << SubSeq(s, i, j - 1) >> \o TextLines(s, j + 1)

Blank(l) == \A k \in 1..Len(l) : l[k] \in WhiteSpace

\* The lines ls joined by newlines.
RECURSIVE JoinLines(_)
JoinLines(ls) ==
  IF Len(ls) = 1 THEN ls[1] ELSE ls[1] \o <<"\n">> \o JoinLines(Tail(ls))

\* The paragraphs of the lines ls: the maximal runs of lines that are not
\* blank, each joined and trimmed.  cur is the run being read.
RECURSIVE Paragraphs(_, _)
Paragraphs(ls, cur) ==
  IF ls = << >> THEN (IF cur = << >> THEN << >> ELSE << Trim(JoinLines(cur)) >>)
  ELSE IF ~Blank(Head(ls)) THEN Paragraphs(Tail(ls), Append(cur, Head(ls)))
  ELSE IF cur = << >> THEN Paragraphs(Tail(ls), << >>)
  ELSE << Trim(JoinLines(cur)) >> \o Paragraphs(Tail(ls), << >>)

\* The texts of the lines that monologue recovery makes of the text s.
MonologueTexts(s) ==
  LET ls == RecoverMonologue(s).script.v
  IN [k \in 1..Len(ls) |-> Prop(ls[k], KeyText).v]

\* s with one more empty line after the newline at p.
OneMoreBlankLine(s, p) == SubSeq(s, 1, p) \o <<"\n">> \o From(s, p + 1)

\* The newline at p of s is followed by a blank line.
BlankLineAfter(s, p) ==
  /\ s[p] = "\n"
  /\ \E q \in (p + 1)..Len(s) :
       s[q] = "\n" /\ \A k \in (p + 1)..(q - 1) : s[k] \in WhiteSpace \ {"\n"}

\* C4: in monologue mode the response is not parsed as JSON; the call
\* returns one line per paragraph (a maximal run of lines that are not
\* blank), in order, with the trimmed paragraph as text, and one more blank
\* line between two paragraphs changes nothing.
MonologueParagraphs ==
  (pc = "returned" /\ Monologue) =>
    /\ tier = "monologue"
    /\ [k \in 1..Len(result) |-> result[k].text] =
         [k \in 1..Len(Paragraphs(TextLines(raw, 1), << >>)) |->
            Str(Paragraphs(TextLines(raw, 1), << >>)[k])]
    /\ \A p \in 1..Len(raw) :
         BlankLineAfter(raw, p) =>
           MonologueTexts(OneMoreBlankLine(raw, p)) = [k \in 1..Len(result) |-> result[k].text.v]

\* Witness of C4: a response of two paragraphs with a blank line that holds
\* a space between them has been returned as two lines.
MonologueWitness ==
  /\ pc = "returned" /\ Monologue
  /\ raw = <<"A", "\n", " ", "\n", "A">>
  /\ Len(result) = 2

\* C5: in conversation mode a line is Host exactly when its recovered label
\* is "Host", the configured hostName or "Speaker 1", and Expert otherwise.
HostLabels ==
  (pc = "returned" /\ Conversation) =>
    \A k \in 1..Len(result) :
      LET label == Prop(script.v[k], KeySpeaker)
          host == /\ label.t = "str"
                  /\ label.v \in {LitHost, config.hostName, LitSpeaker1}
      IN /\ host => result[k].speaker = "Host"
         /\ ~host => result[k].speaker = "Expert"

\* Witness of C5: a returned script with the labels "Speaker 1" and
\* "Dr. Smith".
HostLabelsWitness ==
  /\ pc = "returned" /\ Conversation
  /\ \E k \in 1..Len(result) : IsStr(Prop(script.v[k], KeySpeaker), LitDrSmith)
  /\ \E k \in 1..Len(result) : IsStr(Prop(script.v[k], KeySpeaker), config.hostName)

\* The response holds no {speaker, text} object at all.
NoObjects ==
  \/ source.kind \in {"junk", "prose"}
  \/ source.kind = "array" /\ source.objs = << >>

\* C6: in conversation mode a response without any recoverable object and
\* of stripped length at most the threshold fails with the script-parse
\* error and never returns a script.
ShortUnrecoverableFails ==
  (Finished /\ Conversation /\ NoObjects /\ Len(StripFences(raw)) <= Threshold) =>
    pc = "threw" /\ err = "ScriptParseError"

\* C7: in conversation mode a response without any recoverable object and
\* of stripped length above the threshold returns exactly one Expert line
\* whose text is the whole stripped text.
LongUnrecoverableIsOneLine ==
  (Finished /\ Conversation /\ NoObjects /\ Len(StripFences(raw)) > Threshold) =>
    /\ pc = "returned"
    /\ result = << [speaker |-> "Expert", text |-> Str(StripFences(raw))] >>

\* C8: the call never returns an empty script, in either mode.
NeverEmptyScript == pc = "returned" => Len(result) > 0

\* JSON.stringify of the value x (undefined is written null, as in an array).
RECURSIVE Stringify(_)
RECURSIVE StringifyAll(_)
RECURSIVE StringifyMembers(_, _)
Stringify(x) ==
  CASE x.t = "str" -> <<Quote>> \o JsonEscape(x.v) \o <<Quote>>
    [] x.t = "num" -> x.v
    [] x.t = "bool" -> IF x.v = <<"true">> THEN <<"t", "r", "u", "e">> ELSE <<"f", "a", "l", "s", "e">>
    [] x.t = "arr" -> <<"[">> \o StringifyAll(x.v) \o <<"]">>
    [] x.t = "obj" -> <<"{">> \o StringifyMembers(x.v, TRUE) \o <<"}">>
    [] OTHER -> <<"n", "u", "l", "l">>

StringifyAll(xs) ==
  IF xs = << >> THEN << >>
  ELSE IF Len(xs) = 1 THEN Stringify(xs[1])
  ELSE Stringify(xs[1]) \o <<",">> \o StringifyAll(Tail(xs))

\* The members of an object; one whose value is undefined is left out.
StringifyMembers(ms, first) ==
  IF ms = << >> THEN << >>
  ELSE IF Head(ms).val.t = "undef" THEN StringifyMembers(Tail(ms), first)
  ELSE (IF first THEN << >> ELSE <<",">>)
       \o <<Quote>> \o JsonEscape(Head(ms).key) \o <<Quote, ":">> \o Stringify(Head(ms).val)
       \o StringifyMembers(Tail(ms), FALSE)

\* The characters of a member of the Speaker enum.
SpeakerName(sp) ==
  CASE sp = "Host" -> LitHost
    [] sp = "Expert" -> LitExpert
    [] OTHER -> LitNarrator

\* JSON.stringify(lines) of a ScriptLine[].
Reserialize(lines) ==
  Stringify(Arr([k \in 1..Len(lines) |-> Line(Str(SpeakerName(lines[k].speaker)), lines[k].text)]))

\* Recovery and mapping, in conversation mode, of the reserialized lines:
\* the lines again, or << "threw" >> if the call rejects.
RoundTrip(lines, cfg) ==
  LET r == RecoverConversation(Reserialize(lines))
  IN IF r.err # "none" \/ MapThrows(r.script) THEN << "threw" >> ELSE MapLines(r.script, cfg)

\* C9 as stated: in conversation mode, for every config, the returned
\* script, reserialized and recovered again, is the same script.
RoundTripStable ==
  (pc = "returned" /\ Conversation) => RoundTrip(result, config) = result

\* C9 as amended: the same, for every config whose hostName is not the
\* literal "Expert".
RoundTripStableUnlessHostIsExpert ==
  (pc = "returned" /\ Conversation /\ config.hostName # LitExpert) =>
    RoundTrip(result, config) = result

\* Witness of C9: a script with an Expert line and a Host line, recovered
\* by the pattern under hostName Kore, has been returned.
RoundTripWitness ==
  /\ pc = "returned" /\ Conversation /\ config.hostName = LitKore
  /\ tier = "pattern"
  /\ \E k \in 1..Len(result) : result[k].speaker = "Expert"
  /\ \E k \in 1..Len(result) : result[k].speaker = "Host"

\* C10: every line returned in monologue mode is Narrator, every line
\* returned in conversation mode is Host or Expert.
SpeakerFollowsMode ==
  pc = "returned" =>
    \A k \in 1..Len(result) :
      /\ Monologue => result[k].speaker = "Narrator"
      /\ Conversation => result[k].speaker \in {"Host", "Expert"}

\* Witness of C10: a conversation script recovered from an object labelled
\* "Narrator" has been returned.
SpeakerFollowsModeWitness ==
  /\ pc = "returned" /\ Conversation
  /\ \E k \in 1..Len(result) : IsStr(Prop(script.v[k], KeySpeaker), LitNarrator)

\* C11: the Line Mapper drops, adds and reorders nothing: the returned
\* script is as long as the recovered sequence and its i-th line has the
\* i-th recovered text, also when the label is not recognized.
MapperKeepsLines ==
  pc = "returned" =>
    /\ Len(result) = Len(script.v)
    /\ \A k \in 1..Len(result) : result[k].text = Prop(script.v[k], KeyText)

\* Witness of C11: a script of two lines, one of them recovered with the
\* label "Dr. Smith", has been returned in conversation mode.
MapperKeepsLinesWitness ==
  /\ pc = "returned" /\ Conversation
  /\ Len(result) = 2
  /\ \E k \in 1..2 : IsStr(Prop(script.v[k], KeySpeaker), LitDrSmith)

\* C12: every returned line has a text that is not empty after trimming.
TextsNotBlank ==
  pc = "returned" =>
    \A k \in 1..Len(result) :
      result[k].text.t = "str" /\ Len(Trim(result[k].text.v)) > 0

\* C13: with no credential nothing fails before the first call, and every
\* call of generatePodcastScript or generatePodcastAudio fails with the
\* configuration error before any fetch or generative request is issued.
MissingKeyFailsFirst ==
  ~apiKey =>
    /\ nFetch = 0 /\ nGen = 0 /\ request = NoRequest
    /\ pc \in {"idle", "threw"}
    /\ (calls = 0 => pc = "idle" /\ err = "none")
    /\ (pc = "threw" => err = "ConfigError")

\* Witness of C13: without a credential two calls have been made, the
\* second one of generatePodcastAudio with a script that is not empty.
MissingKeyWitness ==
  /\ ~apiKey /\ calls = 2 /\ fn = "audio" /\ pc = "threw"
  /\ scriptLines # << >>

\* C14: the fetches and the generative requests issued never outnumber the
\* calls made (one call issues at most one of each), and a call that has
\* failed carries its error to the caller.
AtMostOneRequestPerCall ==
  /\ nFetch <= calls /\ nGen <= calls
  /\ (pc = "threw" <=> err # "none")

\* Witness of C14: a call of generatePodcastScript for a URL has failed
\* after its fetch and its generative request.
AtMostOneRequestWitness ==
  /\ fn = "script" /\ pc = "threw" /\ fetch = "ok"
  /\ nFetch = calls /\ nGen = calls

\* C15: a URL call whose retrieval failed has failed with the content-fetch
\* error and its 'check if the URL is public' message, and has issued no
\* generative request.
FetchFailureStopsCall ==
  (fn = "script" /\ fetch \in {"status", "network", "body"}) =>
    /\ err = "FetchError"
    /\ ErrorMessage(err) = "Could not fetch the URL. Please check if the URL is public and accessible."
    /\ request = NoRequest

\* Witness of C15: the retrieval of a URL call answered with a status that
\* is not 2xx and the call has failed.
FetchFailureWitness ==
  /\ fn = "script" /\ fetch = "status" /\ pc = "threw" /\ Truthy(input.url)

\* C17: the response contract follows the mode alone: conversation asks
\* for JSON under the schema of an array of objects with required speaker
\* and text, monologue asks for plain text with no schema, and both declare
\* 8192 output tokens.
ContractFollowsMode ==
  request.model = "gemini-2.5-flash" =>
    /\ request.config.maxOutputTokens = 8192
    /\ IF config.mode = "conversation"
       THEN /\ request.config.responseMimeType = "application/json"
            /\ "responseSchema" \in DOMAIN request.config
            /\ request.config.responseSchema.type = "ARRAY"
            /\ request.config.responseSchema.items.type = "OBJECT"
            /\ DOMAIN request.config.responseSchema.items.properties = {"speaker", "text"}
            /\ request.config.responseSchema.items.required = <<"speaker", "text">>
       ELSE /\ request.config.responseMimeType = "text/plain"
            /\ "responseSchema" \notin DOMAIN request.config

\* Witness of C17: a monologue request for a PDF with a page range has been
\* sent.
ContractWitness ==
  /\ request.model = "gemini-2.5-flash" /\ config.mode = "monologue"
  /\ request.contents.kind = "pdf" /\ input.pageRange.present

\* C18: whenever the request carries a page range, the instruction holds
\* the directive with the start and the end as given (to the end of the
\* document when no end is given).
RangeDirectivePresent ==
  (request.model = "gemini-2.5-flash" /\ input.pageRange.present) =>
    request.config.systemInstruction.range =
      <<"FOCUS RANGE: Process content ONLY from Page ">> \o input.pageRange.start.v
      \o (IF input.pageRange.end.v # << >> THEN <<" to Page ">> \o input.pageRange.end.v
          ELSE <<" to the end">>)
      \o <<". Ignore content before or after this range.">>

\* C16: every request that handleGenerateScript hands to
\* generatePodcastScript has exactly one of text, pdfBase64 and url
\* populated.
ExactlyOneContent ==
  \A h \in Awaiting :
    (h.fn = "script" /\ h.stage = "calling") =>
      Cardinality({k \in {"text", "pdfBase64", "url"} : Truthy(h.input[k])}) = 1

\* C19: a step in which generatePodcastAudio fails puts the App in the
\* Error state with the fixed message and changes neither the script nor
\* the audio.
AudioFailureKeepsState ==
  [][\A h \in Awaiting :
       (h.fn = "audio" /\ inFlight' = Resumed(h) /\ appState' # "Playing") =>
         /\ appState' = "Error"
         /\ error' = "Failed to generate audio. The content might be too long for a single pass."
         /\ appScript' = appScript
         /\ audioBase64' = audioBase64]_vars

\* Witness of C19: an audio generation has failed while the App held a
\* script and the audio of an earlier generation.
AudioFailureWitness ==
  /\ appState = "Error" /\ error = AudioErrorText
  /\ audioBase64 # NoAudio /\ appScript # << >>

\* C20: a step in which a script generation succeeds makes the script the
\* one the call returned, and a step in which it fails leaves the script
\* as it was and puts the App in the Error state with a message.
ScriptReplacedOrKept ==
  [][\A h \in Awaiting :
       (h.fn = "script" /\ inFlight' = Resumed(h)) =>
         \/ /\ appState' = "ScriptReady"
            /\ \E o \in CallOutcomes(h) : o.ok /\ appScript' = o.value
         \/ /\ appState' = "Error"
            /\ error' \notin {NoError, ""}
            /\ appScript' = appScript]_vars

\* Witness of C20: the App shows a script of one line after it held a
\* script of two lines, from which its audio was made.
ScriptReplacedWitness ==
  /\ appState = "ScriptReady" /\ Len(appScript) = 1
  /\ audioBase64 # NoAudio /\ Len(audioBase64.contents.lines) = 2

\* C21: in the Error state the Generate Script action is enabled for every
\* form whose current input is not blank, and a step that puts the App in
\* the Error state adds no handler to those in flight: only a click starts
\* a generation.
ErrorAllowsManualRetry ==
  /\ [](appState = "Error" =>
          \A f \in Forms : ~ValidationReturns(f) => ENABLED handleGenerateScript(f))
  /\ [][appState' = "Error" =>
          BagCardinality(inFlight') <= BagCardinality(inFlight)]_vars

\* Witness of C21: a script generation has failed in generateContent and
\* nothing is in flight.
ErrorAllowsManualRetryWitness ==
  /\ appState = "Error" /\ error = ScriptErrorText("GenerationError")
  /\ inFlight = EmptyBag

\* A JSON array of { speaker, text } objects: every element is an object
\* whose speaker and text are strings.
IsLineArray(x) ==
  /\ x.t = "arr"
  /\ \A k \in 1..Len(x.v) :
       /\ x.v[k].t = "obj"
       /\ Prop(x.v[k], KeySpeaker).t = "str"
       /\ Prop(x.v[k], KeyText).t = "str"

\* C22: conversation recovery follows one ordered decision table: the
\* strict parse if the stripped text is a JSON array of {speaker, text}
\* objects, otherwise the pattern if it matches, otherwise the single
\* Expert line if the stripped text is longer than the threshold,
\* otherwise the script-parse error; valid JSON of another shape is handed
\* to the next tier.
RecoveryFollowsTable ==
  (Finished /\ Conversation /\ source.kind # "none") =>
    /\ jsonStr = StripFences(raw)
    /\ \E parsed \in {JSONParse(jsonStr)}, matches \in {MatchAll(jsonStr, 1)} :
         IF parsed.ok /\ IsLineArray(parsed.val)
         THEN tier = "strict" /\ script = parsed.val
         ELSE IF Len(matches) > 0
         THEN tier = "pattern" /\ script = Arr(MatchLines(matches))
         ELSE IF Len(jsonStr) > Threshold
         THEN tier = "degenerate" /\ script = Arr(<< Line(Str(LitExpert), Str(jsonStr)) >>)
         ELSE tier = "fail" /\ err = "ScriptParseError"

\* C23: conversation recovery of a text wrapped in a code fence, with or
\* without the json tag and with white space around it, ends as the
\* recovery of the text alone does: the same lines, or the same error.
FenceIsTransparent ==
  (Finished /\ Conversation /\ source.kind # "none") =>
    \E alone \in {SettleOn(RecoverConversation(Render(source)), config)} :
       IF alone.ok THEN pc = "returned" /\ result = alone.value
       ELSE pc = "threw" /\ err = alone.err

ScriptCalls == {h \in Awaiting : h.fn = "script" /\ h.stage = "calling"}
AudioCalls == {h \in Awaiting : h.fn = "audio"}

\* The number of calls in flight among the handlers hs.
RECURSIVE CallsInFlight(_)
CallsInFlight(hs) ==
  IF hs = {} THEN 0
  ELSE LET h == CHOOSE x \in hs : TRUE
       IN CopiesIn(h, inFlight) + CallsInFlight(hs \ {h})

\* C25: under every interleaving of clicks and completions at most one
\* generatePodcastScript call started by the App is in flight.
AtMostOneScriptCall == CallsInFlight(ScriptCalls) <= 1

\* C26: under every interleaving of clicks and completions at most one
\* generatePodcastAudio call started by the App is in flight.
AtMostOneAudioCall == CallsInFlight(AudioCalls) <= 1

\* C27: while a script generation or an audio generation is in flight,
\* appState is GeneratingScript or GeneratingAudio; it is ScriptReady,
\* Playing, Error or Idle only when no generation is in flight.
GeneratingWhileInFlight ==
  inFlight # EmptyBag => appState \in {"GeneratingScript", "GeneratingAudio"}

\* C28: whenever the App holds audio, the audio was synthesized from the
\* script it shows.
AudioMatchesScript ==
  audioBase64 # NoAudio =>
    \E m \in PodcastModes : audioBase64 = AudioOf(appScript, AppConfig(m))

\* C29: every audio generation uses the mode under which its script was
\* generated: Narrator lines go out as a single-voice monologue, Host and
\* Expert lines as a two-voice conversation in which a line carries
\* hostName exactly when its speaker is Host and expertName otherwise.
AudioModeFollowsScript ==
  \A h \in AudioCalls :
    \E req \in {AudioRequest(h.script, h.config)} :
      /\ (\A k \in 1..Len(h.script) : h.script[k].speaker = "Narrator") =>
           /\ req.contents.monologue
           /\ DOMAIN req.config.speechConfig = {"voiceConfig"}
      /\ (\A k \in 1..Len(h.script) : h.script[k].speaker \in {"Host", "Expert"}) =>
           /\ ~req.contents.monologue
           /\ DOMAIN req.config.speechConfig = {"multiSpeakerVoiceConfig"}
           /\ \A k \in 1..Len(h.script) :
                req.contents.lines[k].name =
                  IF h.script[k].speaker = "Host" THEN h.config.hostName ELSE LitFenrir

\* C30: if every external call returns or fails, the App does not stay in
\* GeneratingScript or GeneratingAudio: from either it reaches ScriptReady,
\* Playing or Error, under every interleaving with other clicks.
GenerationEnds ==
  (appState \in {"GeneratingScript", "GeneratingAudio"})
    ~> (appState \in {"ScriptReady", "Playing", "Error"})

\* Witness of C30: a script generation and an audio generation have both
\* ended, the App plays the audio of the script it shows and nothing is in
\* flight.
GenerationEndsWitness ==
  /\ appState = "Playing" /\ inFlight = EmptyBag /\ error = NoError
  /\ \E m \in PodcastModes : audioBase64 = AudioOf(appScript, AppConfig(m))

====
